---- MODULE Spec2Model ----
(***************************************************************************)
(* A model of the EVM legacy assembly stack translators                    *)
(* (src/src/evmla/assembly/instruction/stack.rs) and of the AST diagnostic *)
(* scanner (src/era-solc/src/standard_json/output/source.rs).              *)
(*                                                                         *)
(* Three specifications share the module:                                  *)
(*   SpecStack  dup / swap / pop driven over a virtual stack whose cells   *)
(*              hold the values the emitted loads and stores move;         *)
(*   SpecPush   push / push_tag over operand strings;                      *)
(*   SpecScan   Source::get_messages over bounded JSON trees.              *)
(***************************************************************************)
EXTENDS Integers, Sequences, FiniteSets, TLC

VARIABLES
    stack,            \* context.evmla().stack : sequence of [pointer, original]
    memory,           \* contents of the stack cells the emitted IR addresses
    height,           \* the stack height the lowering loop passes to the translators
    overflow_checks,  \* build profile: TRUE = usize arithmetic panics on overflow, FALSE = it wraps
    status,           \* "running", or "aborted" once a translator has panicked
    last,             \* the last step taken: operation, operands, outcome and pre-state
    prev,             \* the step before `last`, kept for swap;swap and append;dup pairs
    ast,              \* the scanner's input tree (serde_json::Value)
    solc_version,     \* the scanner's compiler version, <<major, minor, patch>>
    suppressed_errors,
    suppressed_warnings,
    messages,         \* the list get_messages returned
    pc                \* "idle" before the scan, "done" after it

vars == <<stack, memory, height, overflow_checks, status, last, prev,
          ast, solc_version, suppressed_errors, suppressed_warnings, messages, pc>>

stackVars == <<stack, memory, height, overflow_checks, status, last, prev>>
scanVars == <<ast, solc_version, suppressed_errors, suppressed_warnings, messages, pc>>

----------------------------------------------------------------------------
(* Bounds *)

MaxStack == 3     \* largest number of stack cells of a function
MaxOffset == 3    \* largest dup / swap depth tried
MaxLen == 2       \* longest push operand, in characters
MaxWrap == 1      \* levels of array / object nesting wrapped around the scanned nodes

----------------------------------------------------------------------------
(* Values *)

NoLabel == "<none>"                 \* Option::<String>::None
Labels == {"x"}                     \* Some(label)
Prov == Labels \cup {NoLabel}
Values == {0, 1}                    \* the words the cells hold
NoValue == -1                       \* no value was returned

Range(s) == {s[i] : i \in 1..Len(s)}

RECURSIVE SeqsUpTo(_, _)
SeqsUpTo(S, n) ==
    IF n = 0 THEN {<<>>}
    ELSE LET shorter == SeqsUpTo(S, n - 1)
         IN shorter \cup {Append(s, x) : s \in {t \in shorter : Len(t) = n - 1}, x \in S}

----------------------------------------------------------------------------
(* usize arithmetic.  A usize above 2^63 is written as the negative integer *)
(* congruent to it modulo 2^64, so a wrapped difference of small numbers is *)
(* the plain integer difference; no vector is that long, so a negative      *)
(* index is always out of bounds.                                           *)

\* saturating_sub in place of the checked / wrapping subtraction.
usize_saturating_sub(checks, a, b) == [panic |-> FALSE, val |-> IF a < b THEN 0 ELSE a - b]

usize_sub(checks, a, b) == [panic |-> checks /\ a < b, val |-> a - b]

in_bounds(vec, index) == index >= 0 /\ index < Len(vec)

Load(pointer) == [instr |-> "load", pointer |-> pointer, value |-> NoValue]
Store(pointer, value) == [instr |-> "store", pointer |-> pointer, value |-> value]

\* The result of one translator call: the Result it returned (or the panic),
\* the out-parameter, the IR it emitted, and the stack and cells afterwards.
Returned(value, original, ir, stk, mem) ==
    [outcome |-> "ok", value |-> value, original |-> original, ir |-> ir,
     stack |-> stk, memory |-> mem]

Panicked(ir, stk, mem) ==
    [outcome |-> "panic", value |-> NoValue, original |-> NoLabel, ir |-> ir,
     stack |-> stk, memory |-> mem]

----------------------------------------------------------------------------
(* dup: stack.rs 45-66 *)

dup_no_original(stk, mem, checks, offset, height_) ==
    LET d1 == usize_sub(checks, height_, offset)
        d2 == usize_sub(checks, d1.val, 1)
    IN IF d1.panic \/ d2.panic \/ ~in_bounds(stk, d2.val)
       THEN Panicked(<<>>, stk, mem)
       ELSE LET element == stk[d2.val + 1]
            IN Returned(mem[element.pointer], NoLabel,
                        <<Load(element.pointer)>>, stk, mem)

dup_off_by_one(stk, mem, checks, offset, height_) ==
    LET d1 == usize_sub(checks, height_, offset)
    IN IF d1.panic \/ ~in_bounds(stk, d1.val)
       THEN Panicked(<<>>, stk, mem)
       ELSE LET element == stk[d1.val + 1]
            IN Returned(mem[element.pointer], element.original,
                        <<Load(element.pointer)>>, stk, mem)

dup(stk, mem, checks, offset, height_) ==
    LET d1 == usize_sub(checks, height_, offset)       \* height - offset
        d2 == usize_sub(checks, d1.val, 1)             \* ... - 1
    IN IF d1.panic \/ d2.panic \/ ~in_bounds(stk, d2.val)
       THEN Panicked(<<>>, stk, mem)                   \* line 54 panics
       ELSE LET element == stk[d2.val + 1]
            IN Returned(mem[element.pointer],          \* build_load
                        element.original,              \* *original = element.original
                        <<Load(element.pointer)>>, stk, mem)

----------------------------------------------------------------------------
(* swap: stack.rs 71-100 *)

\* The stack with the `original` of the (0-based) slot `index` replaced.
set_original(stk, index, original) ==
    [stk EXCEPT ![index + 1] = [@ EXCEPT !.original = original]]

\* A swap that keeps the provenance labels where they were.
swap_keeps_originals(stk, mem, checks, offset, height_) ==
    LET t == usize_sub(checks, height_, 1)
        d1 == usize_sub(checks, height_, offset)
        d2 == usize_sub(checks, d1.val, 1)
    IN IF t.panic \/ ~in_bounds(stk, t.val) THEN Panicked(<<>>, stk, mem)
       ELSE LET top_pointer == stk[t.val + 1].pointer
                top_value == mem[top_pointer]
            IN IF d1.panic \/ d2.panic \/ ~in_bounds(stk, d2.val)
               THEN Panicked(<<Load(top_pointer)>>, stk, mem)
               ELSE LET swap_pointer == stk[d2.val + 1].pointer
                        swap_value == mem[swap_pointer]
                        mem1 == [mem EXCEPT ![top_pointer] = swap_value]
                        mem2 == [mem1 EXCEPT ![swap_pointer] = top_value]
                    IN Returned(NoValue, NoLabel,
                                <<Load(top_pointer), Load(swap_pointer),
                                  Store(top_pointer, swap_value),
                                  Store(swap_pointer, top_value)>>,
                                stk, mem2)

\* A swap that stores the top value back to the top cell: the other cell's
\* value is lost only when the two cells differ.
swap_reloads_after_store(stk, mem, checks, offset, height_) ==
    LET t == usize_sub(checks, height_, 1)
        d1 == usize_sub(checks, height_, offset)
        d2 == usize_sub(checks, d1.val, 1)
    IN IF t.panic \/ ~in_bounds(stk, t.val) THEN Panicked(<<>>, stk, mem)
       ELSE LET top_element == stk[t.val + 1]
                top_pointer == top_element.pointer
            IN IF d1.panic \/ d2.panic \/ ~in_bounds(stk, d2.val)
               THEN Panicked(<<Load(top_pointer)>>, stk, mem)
               ELSE LET swap_element == stk[d2.val + 1]
                        swap_pointer == swap_element.pointer
                        swap_value == mem[swap_pointer]
                        stk1 == set_original(stk, t.val, swap_element.original)
                        stk2 == set_original(stk1, d2.val, top_element.original)
                        mem1 == [mem EXCEPT ![top_pointer] = swap_value]
                        top_value == mem1[top_pointer]
                        mem2 == [mem1 EXCEPT ![swap_pointer] = top_value]
                    IN Returned(NoValue, NoLabel,
                                <<Load(swap_pointer), Store(top_pointer, swap_value),
                                  Load(top_pointer), Store(swap_pointer, top_value)>>,
                                stk2, mem2)

\* A swap that clears the top cell before it refills it: harmless unless the
\* two cells are the same one.
swap_xor_style(stk, mem, checks, offset, height_) ==
    LET t == usize_sub(checks, height_, 1)
        d1 == usize_sub(checks, height_, offset)
        d2 == usize_sub(checks, d1.val, 1)
    IN IF t.panic \/ ~in_bounds(stk, t.val) THEN Panicked(<<>>, stk, mem)
       ELSE LET top_element == stk[t.val + 1]
                top_pointer == top_element.pointer
                top_value == mem[top_pointer]
            IN IF d1.panic \/ d2.panic \/ ~in_bounds(stk, d2.val)
               THEN Panicked(<<Load(top_pointer)>>, stk, mem)
               ELSE LET swap_element == stk[d2.val + 1]
                        swap_pointer == swap_element.pointer
                        mem0 == [mem EXCEPT ![top_pointer] = 0]
                        swap_value == mem0[swap_pointer]
                        stk1 == set_original(stk, t.val, swap_element.original)
                        stk2 == set_original(stk1, d2.val, top_element.original)
                        mem1 == [mem0 EXCEPT ![swap_pointer] = top_value]
                        mem2 == [mem1 EXCEPT ![top_pointer] = swap_value]
                    IN Returned(NoValue, NoLabel,
                                <<Load(top_pointer), Store(top_pointer, 0),
                                  Load(swap_pointer), Store(swap_pointer, top_value),
                                  Store(top_pointer, swap_value)>>,
                                stk2, mem2)

swap(stk, mem, checks, offset, height_) ==
    LET t == usize_sub(checks, height_, 1)              \* height - 1
        d1 == usize_sub(checks, height_, offset)        \* height - offset
        d2 == usize_sub(checks, d1.val, 1)              \* ... - 1
    IN IF t.panic \/ ~in_bounds(stk, t.val)
       THEN Panicked(<<>>, stk, mem)                    \* line 79 panics
       ELSE LET top_element == stk[t.val + 1]
                top_pointer == top_element.pointer
                top_value == mem[top_pointer]           \* line 84: build_load
            IN IF d1.panic \/ d2.panic \/ ~in_bounds(stk, d2.val)
               THEN Panicked(<<Load(top_pointer)>>, stk, mem)   \* line 86 panics
               ELSE LET swap_element == stk[d2.val + 1]
                        swap_pointer == swap_element.pointer
                        swap_value == mem[swap_pointer] \* line 91: build_load
                        stk1 == set_original(stk, t.val, swap_element.original)
                        stk2 == set_original(stk1, d2.val, top_element.original)
                        mem1 == [mem EXCEPT ![top_pointer] = swap_value]
                        mem2 == [mem1 EXCEPT ![swap_pointer] = top_value]
                    IN Returned(NoValue, NoLabel,
                                <<Load(top_pointer), Load(swap_pointer),
                                  Store(top_pointer, swap_value),
                                  Store(swap_pointer, top_value)>>,
                                stk2, mem2)

----------------------------------------------------------------------------
(* pop: stack.rs 105-110 *)

pop(stk, mem) == Returned(NoValue, NoLabel, <<>>, stk, mem)

----------------------------------------------------------------------------
(* The translation of one function: the steps of the lowering loop. *)

Snapshot == [stack |-> stack, memory |-> memory, height |-> height]

NoStep ==
    [op |-> "none", operand |-> <<>>, offset |-> 0, height |-> 0,
     outcome |-> "none", value |-> NoValue, original |-> NoLabel, ir |-> <<>>,
     pre |-> [stack |-> <<>>, memory |-> <<>>, height |-> 0]]

Step(op, operand, offset, height_, res) ==
    [op |-> op, operand |-> operand, offset |-> offset, height |-> height_,
     outcome |-> res.outcome, value |-> res.value, original |-> res.original,
     ir |-> res.ir, pre |-> Snapshot]

\* What every translator call does to the state.
Apply(op, operand, offset, res) ==
    /\ stack' = res.stack
    /\ memory' = res.memory
    /\ last' = Step(op, operand, offset, height, res)
    /\ status' = IF res.outcome = "panic" THEN "aborted" ELSE "running"
    /\ UNCHANGED <<height, overflow_checks>>

\* The stacks a function starts from: one cell per position, each with its
\* own pointer, any contents and any provenance.
InitStacks ==
    UNION {[1..n -> [pointer : {0}, original : Prov]] : n \in 1..MaxStack}

WithPointers(stk) == [i \in 1..Len(stk) |-> [stk[i] EXCEPT !.pointer = i]]

ScanIdle ==
    /\ ast = <<>>
    /\ solc_version = <<0, 0, 0>>
    /\ suppressed_errors = {}
    /\ suppressed_warnings = {}
    /\ messages = <<>>
    /\ pc = "off"

InitStack ==
    /\ \E stk \in InitStacks :
          /\ stack = WithPointers(stk)
          /\ memory \in [1..Len(stk) -> Values]
          /\ height \in 0..Len(stk)
    /\ overflow_checks \in BOOLEAN
    /\ status = "running"
    /\ last = NoStep
    /\ prev = NoStep
    /\ ScanIdle

CallDup(offset) ==
    /\ status = "running"
    /\ Apply("dup", <<>>, offset, dup(stack, memory, overflow_checks, offset, height))
    /\ prev' = IF last.op = "append" THEN last ELSE NoStep
    /\ UNCHANGED scanVars

CallSwap(offset) ==
    /\ status = "running"
    /\ Apply("swap", <<>>, offset, swap(stack, memory, overflow_checks, offset, height))
    /\ prev' = IF last.op = "swap" /\ last.outcome = "ok" /\ last.offset = offset
               THEN last ELSE NoStep
    /\ UNCHANGED scanVars

CallPop ==
    /\ status = "running"
    /\ Apply("pop", <<>>, 0, pop(stack, memory))
    /\ prev' = NoStep
    /\ UNCHANGED scanVars

\* The caller's part of a push, push_tag or dup: the value goes to the cell
\* of the next position, which takes the provenance label, and the height
\* grows by one.
CallerAppend(value, original) ==
    /\ status = "running"
    /\ height < Len(stack)
    /\ stack' = set_original(stack, height, original)
    /\ memory' = [memory EXCEPT ![stack[height + 1].pointer] = value]
    /\ height' = height + 1
    /\ last' = [NoStep EXCEPT !.op = "append", !.height = height, !.outcome = "ok",
                              !.value = value, !.original = original,
                              !.ir = <<Store(stack[height + 1].pointer, value)>>,
                              !.pre = Snapshot]
    /\ prev' = NoStep
    /\ UNCHANGED <<overflow_checks, status, scanVars>>

\* The caller's part of a pop: the height shrinks by one.
CallerDiscard ==
    /\ status = "running"
    /\ last.op = "pop"
    /\ height > 0
    /\ height' = height - 1
    /\ last' = [NoStep EXCEPT !.op = "discard", !.height = height, !.outcome = "ok",
                              !.pre = Snapshot]
    /\ prev' = NoStep
    /\ UNCHANGED <<stack, memory, overflow_checks, status, scanVars>>

NextStack ==
    \/ \E offset \in 0..MaxOffset : CallDup(offset)
    \/ \E offset \in 0..MaxOffset : CallSwap(offset)
    \/ CallPop
    \/ \E value \in Values, original \in Prov : CallerAppend(value, original)
    \/ CallerDiscard

SpecStack == InitStack /\ [][NextStack]_vars

----------------------------------------------------------------------------
(* push, push_tag: stack.rs 10-40 *)

Chars == {"1", "2", "a", "g"}
Operands == SeqsUpTo(Chars, MaxLen)

\* The digit a character stands for in a radix, or -1 when it is none
\* (StringRadix::matches_str refuses the string).
digit(radix, c) ==
    CASE c = "1" -> 1
      [] c = "2" -> 2
      [] c = "a" /\ radix = 16 -> 10
      [] OTHER -> -1

RECURSIVE radix_value(_, _)
radix_value(radix, s) ==
    IF s = <<>> THEN 0
    ELSE radix_value(radix, SubSeq(s, 1, Len(s) - 1)) * radix + digit(radix, s[Len(s)])

\* IntType::const_int_from_string: None for a string that is empty or holds
\* a character that is no digit of the radix, else the constant.  The field
\* type is 256 bits wide, which no operand of MaxLen digits exceeds.
const_int_from_string(s, radix) ==
    IF s = <<>> \/ \E i \in 1..Len(s) : digit(radix, s[i]) < 0
    THEN [some |-> FALSE, value |-> NoValue]
    ELSE [some |-> TRUE, value |-> radix_value(radix, s)]

push(stk, mem, value) ==
    LET result == const_int_from_string(value, 16)
    IN IF ~result.some THEN Panicked(<<>>, stk, mem)     \* .expect("Always valid")
       ELSE Returned(result.value, NoLabel, <<>>, stk, mem)

\* push_tag reading its operand in the radix of push.
push_tag_hexadecimal(stk, mem, value) == push(stk, mem, value)

push_tag(stk, mem, value) ==
    LET result == const_int_from_string(value, 10)
    IN IF ~result.some THEN Panicked(<<>>, stk, mem)     \* .expect("Always valid")
       ELSE Returned(result.value, NoLabel, <<>>, stk, mem)

InitPush ==
    /\ \E stk \in InitStacks :
          /\ stack = WithPointers(stk)
          /\ memory = [i \in 1..Len(stk) |-> 0]
          /\ height = Len(stk)
    /\ overflow_checks = TRUE
    /\ status = "running"
    /\ last = NoStep
    /\ prev = NoStep
    /\ ScanIdle

CallPush(value) ==
    /\ status = "running"
    /\ Apply("push", value, 0, push(stack, memory, value))
    /\ UNCHANGED <<prev, scanVars>>

CallPushTag(value) ==
    /\ status = "running"
    /\ Apply("push_tag", value, 0, push_tag(stack, memory, value))
    /\ UNCHANGED <<prev, scanVars>>

NextPush ==
    \/ \E value \in Operands : CallPush(value)
    \/ \E value \in Operands : CallPushTag(value)

SpecPush == InitPush /\ [][NextPush]_vars

----------------------------------------------------------------------------
(* Properties of the stack translators *)

\* The 1-based position of the slot `depth` below the top of a stack of height h.
Pos(h, depth) == h - depth

Swapped == last.op = "swap" /\ last.outcome = "ok"
Dupped == last.op = "dup" /\ last.outcome = "ok"

\* C1: for 0 < o < h, swap(o, h) applied twice in succession restores every
\* slot's stored value, provenance label and storage handle.
C1_SwapTwiceRestores ==
    (Swapped /\ prev.op = "swap" /\ last.offset > 0)
        => /\ stack = prev.pre.stack
           /\ memory = prev.pre.memory

C1_Witness ==
    /\ Swapped /\ prev.op = "swap" /\ last.offset > 0
    /\ prev.offset = last.offset /\ prev.height = last.height
    /\ last.pre.memory # memory
    /\ last.pre.stack # stack

\* C2: for 0 <= o < h, duplicate(o, h) loads exactly the cell of slot h-o-1,
\* returns that cell's value, and leaves the stack length, every handle,
\* every stored value and every provenance label as they were.
C2_DupReadsSlot ==
    (last.op = "dup" /\ last.offset < last.height)
        => LET slot == last.pre.stack[Pos(last.height, last.offset)]
           IN /\ last.outcome = "ok"
              /\ last.ir = <<Load(slot.pointer)>>
              /\ last.value = last.pre.memory[slot.pointer]
              /\ stack = last.pre.stack
              /\ memory = last.pre.memory
              /\ height = last.pre.height

C2_Witness ==
    /\ Dupped /\ last.offset > 0 /\ last.height = Len(stack)
    /\ last.value = 1
    /\ memory[stack[last.height].pointer] = 0

C4_SelfSwapUnchanged ==
    (last.op = "swap" /\ last.offset = 0 /\ last.height > 0)
        => /\ last.outcome = "ok"
           /\ stack = last.pre.stack
           /\ memory = last.pre.memory

C4_Witness ==
    /\ Swapped /\ last.offset = 0
    /\ memory[stack[last.height].pointer] = 1
    /\ stack[last.height].original \in Labels

\* C5: for 0 < o < h, swap(o, h) exchanges the stored values and the
\* provenance labels of positions h-1 and h-o-1, moves no storage handle,
\* and leaves every other slot's stored value and provenance as they were.
C5_SwapExchangesTwo ==
    (last.op = "swap" /\ last.offset > 0 /\ last.offset < last.height)
        => LET top == Pos(last.height, 0)
               target == Pos(last.height, last.offset)
               before == last.pre
           IN /\ last.outcome = "ok"
              /\ Len(stack) = Len(before.stack)
              /\ \A i \in 1..Len(stack) : stack[i].pointer = before.stack[i].pointer
              /\ memory[stack[top].pointer] = before.memory[before.stack[target].pointer]
              /\ memory[stack[target].pointer] = before.memory[before.stack[top].pointer]
              /\ stack[top].original = before.stack[target].original
              /\ stack[target].original = before.stack[top].original
              /\ \A i \in 1..Len(stack) \ {top, target} :
                    /\ memory[stack[i].pointer] = before.memory[before.stack[i].pointer]
                    /\ stack[i].original = before.stack[i].original

C5_Witness ==
    /\ Swapped /\ last.offset > 0 /\ Len(stack) > 2
    /\ last.pre.memory # memory
    /\ stack[last.height].original # last.pre.stack[last.height].original

\* C6: duplicate(o, h) sets its out-parameter to the provenance of slot
\* h-o-1, absent when that is absent; after the caller appends a slot
\* holding v with label p at height h, duplicate(0, h+1) returns v and p.
C6_DupPropagatesProvenance ==
    /\ Dupped => last.original = last.pre.stack[Pos(last.height, last.offset)].original
    /\ (Dupped /\ prev.op = "append" /\ last.offset = 0)
          => /\ last.height = prev.height + 1
             /\ last.value = prev.value
             /\ last.original = prev.original

C6_Witness ==
    /\ Dupped /\ prev.op = "append" /\ last.offset = 0
    /\ prev.original \in Labels
    /\ last.original = prev.original

\* C7: push reads its operand as hexadecimal and push_tag as decimal
\* (push("1a") = 26, push_tag("12") = 12, push("12") = 18); neither touches
\* the stack or its cells; a malformed operand aborts instead of returning.
C7_PushRadix ==
    LET HexChars == {"1", "2", "a"}
        DecChars == {"1", "2"}
        malformed(cs) == last.operand = <<>> \/ \E i \in 1..Len(last.operand) : last.operand[i] \notin cs
    IN (last.op \in {"push", "push_tag"})
        => /\ (last.op = "push" /\ last.operand = <<"1", "a">>) => last.value = 26
           /\ (last.op = "push_tag" /\ last.operand = <<"1", "2">>) => last.value = 12
           /\ (last.op = "push" /\ last.operand = <<"1", "2">>) => last.value = 18
           /\ (last.op = "push" /\ malformed(HexChars)) => (last.outcome = "panic" /\ status = "aborted")
           /\ (last.op = "push_tag" /\ malformed(DecChars)) => (last.outcome = "panic" /\ status = "aborted")
           /\ (last.op = "push" /\ ~malformed(HexChars)) => (last.outcome = "ok" /\ last.value >= 0)
           /\ (last.op = "push_tag" /\ ~malformed(DecChars)) => (last.outcome = "ok" /\ last.value >= 0)
           /\ last.outcome \in {"ok", "panic"}
           /\ last.ir = <<>>
           /\ stack = last.pre.stack
           /\ memory = last.pre.memory
           /\ height = last.pre.height

C7_Witness ==
    /\ last.op = "push_tag" /\ last.operand = <<"1", "2">> /\ last.value = 12
    /\ last.outcome = "ok"

----------------------------------------------------------------------------
(* serde_json::Value.  A string is the sequence of its text fragments: the *)
(* texts the checks compare for equality are single fragments, and the     *)
(* patterns they search for ("origin()", "t_magic_meta_type") are whole    *)
(* fragments of the texts that hold them.  An object is the sequence of    *)
(* its entries in the order the map iterates them.                         *)

JValue(kind, str, entries, elems) ==
    [kind |-> kind, str |-> str, entries |-> entries, elems |-> elems]

JString(fragments) == JValue("string", fragments, <<>>, <<>>)
JText(text) == JString(<<text>>)
JObject(entries) == JValue("object", <<>>, entries, <<>>)
JArray(elems) == JValue("array", <<>>, <<>>, elems)
JNumber == JValue("number", <<>>, <<>>, <<>>)
NoneV == JValue("none", <<>>, <<>>, <<>>)             \* Option::None

Entry(key, value) == [key |-> key, value |-> value]

is_some(v) == v.kind # "none"

\* Option chains: each of these is None on None, as `?` makes it.
as_object(v) == IF v.kind = "object" THEN v ELSE NoneV
as_str(v) == IF v.kind = "string" THEN v ELSE NoneV

get(v, key) ==
    IF v.kind = "object" /\ \E i \in 1..Len(v.entries) : v.entries[i].key = key
    THEN v.entries[CHOOSE i \in 1..Len(v.entries) : v.entries[i].key = key].value
    ELSE NoneV

\* x? == "text"
str_is(v, text) == as_str(v).kind = "string" /\ as_str(v).str = <<text>>

contains(v, pattern) == \E i \in 1..Len(v.str) : v.str[i] = pattern
starts_with(v, pattern) == Len(v.str) > 0 /\ v.str[1] = pattern

\* semver::Version ordering on <<major, minor, patch>>.
semver_lt(a, b) ==
    \/ a[1] < b[1]
    \/ a[1] = b[1] /\ a[2] < b[2]
    \/ a[1] = b[1] /\ a[2] = b[2] /\ a[3] < b[3]

\* StandardJsonOutputError::{error_send_and_transfer, error_runtime_code,
\* warning_tx_origin}(src, ..): the message is known by its constructor and
\* the src it was given.
Message(ctor, src) == [some |-> TRUE, ctor |-> ctor, src |-> src]
NoMessage == [some |-> FALSE, ctor |-> "", src |-> NoneV]

----------------------------------------------------------------------------
(* The checks: source.rs 41-158 *)

\* The plain-address case gated by <= 0.5.0.
check_send_and_transfer_le(version, ast_) ==
    LET node == as_object(ast_)
        expression == as_object(get(node, "expression"))
        member_name == as_str(get(expression, "memberName"))
        receiver == as_object(get(expression, "expression"))
        type_identifier == as_str(get(as_object(get(receiver, "typeDescriptions")), "typeIdentifier"))
        affected_types == {<<"t_address_payable">>} \cup
                          (IF ~semver_lt(<<0, 5, 0>>, version) THEN {<<"t_address">>} ELSE {})
    IN IF /\ str_is(get(node, "nodeType"), "FunctionCall")
          /\ str_is(get(expression, "nodeType"), "MemberAccess")
          /\ is_some(member_name) /\ member_name.str \in {<<"send">>, <<"transfer">>}
          /\ is_some(type_identifier) /\ type_identifier.str \in affected_types
          /\ is_some(get(node, "src"))
       THEN Message("error_send_and_transfer", as_str(get(node, "src")))
       ELSE NoMessage

check_send_and_transfer(version, ast_) ==
    LET node == as_object(ast_)
        expression == as_object(get(node, "expression"))
        member_name == as_str(get(expression, "memberName"))
        receiver == as_object(get(expression, "expression"))
        type_descriptions == as_object(get(receiver, "typeDescriptions"))
        type_identifier == as_str(get(type_descriptions, "typeIdentifier"))
        affected_types == {<<"t_address_payable">>} \cup
                          (IF semver_lt(version, <<0, 5, 0>>) THEN {<<"t_address">>} ELSE {})
    IN IF /\ str_is(get(node, "nodeType"), "FunctionCall")
          /\ str_is(get(expression, "nodeType"), "MemberAccess")
          /\ is_some(member_name) /\ member_name.str \in {<<"send">>, <<"transfer">>}
          /\ is_some(type_identifier) /\ type_identifier.str \in affected_types
          /\ is_some(get(node, "src"))
       THEN Message("error_send_and_transfer", as_str(get(node, "src")))
       ELSE NoMessage

check_runtime_code(ast_) ==
    LET node == as_object(ast_)
        expression == as_object(get(node, "expression"))
        type_descriptions == as_object(get(expression, "typeDescriptions"))
        type_identifier == as_str(get(type_descriptions, "typeIdentifier"))
    IN IF /\ str_is(get(node, "nodeType"), "MemberAccess")
          /\ str_is(get(node, "memberName"), "runtimeCode")
          /\ is_some(type_identifier) /\ starts_with(type_identifier, "t_magic_meta_type")
          /\ is_some(get(node, "src"))
       THEN Message("error_runtime_code", as_str(get(node, "src")))
       ELSE NoMessage

check_tx_origin(ast_) ==
    LET node == as_object(ast_)
        expression == as_object(get(node, "expression"))
    IN IF /\ str_is(get(node, "nodeType"), "MemberAccess")
          /\ str_is(get(node, "memberName"), "origin")
          /\ str_is(get(expression, "nodeType"), "Identifier")
          /\ str_is(get(expression, "name"), "tx")
          /\ is_some(get(node, "src"))
       THEN Message("warning_tx_origin", as_str(get(node, "src")))
       ELSE NoMessage

\* Both forms active at every version.
check_assembly_origin_ungated(version, ast_) ==
    LET node == as_object(ast_)
        operations == as_str(get(node, "operations"))
        name == as_str(get(as_object(get(node, "functionName")), "name"))
        matched ==
            \/ /\ str_is(get(node, "nodeType"), "InlineAssembly")
               /\ is_some(operations) /\ contains(operations, "origin()")
            \/ /\ str_is(get(node, "nodeType"), "YulFunctionCall")
               /\ is_some(name) /\ name.str = <<"origin">>
    IN IF matched /\ is_some(get(node, "src"))
       THEN Message("warning_tx_origin", as_str(get(node, "src")))
       ELSE NoMessage

check_assembly_origin(version, ast_) ==
    LET node == as_object(ast_)
        operations == as_str(get(node, "operations"))
        name == as_str(get(as_object(get(node, "functionName")), "name"))
        matched ==
            \/ /\ str_is(get(node, "nodeType"), "InlineAssembly")
               /\ semver_lt(version, <<0, 6, 0>>)
               /\ is_some(operations) /\ contains(operations, "origin()")
            \/ /\ str_is(get(node, "nodeType"), "YulFunctionCall")
               /\ ~semver_lt(version, <<0, 6, 0>>)
               /\ is_some(name) /\ name.str = <<"origin">>
    IN IF matched /\ is_some(get(node, "src"))
       THEN Message("warning_tx_origin", as_str(get(node, "src")))
       ELSE NoMessage

----------------------------------------------------------------------------
(* get_messages: source.rs 163-221 *)

push_some(list, message) == IF message.some THEN Append(list, message) ELSE list

\* The messages get_messages pushes for the node itself (lines 171-190).
own_messages(ast_, version, errors, warnings) ==
    LET m1 == IF "SendTransfer" \notin errors
              THEN push_some(<<>>, check_send_and_transfer(version, ast_)) ELSE <<>>
        m2 == push_some(m1, check_runtime_code(ast_))
        m3 == IF "TxOrigin" \notin warnings
              THEN push_some(push_some(m2, check_assembly_origin(version, ast_)),
                             check_tx_origin(ast_))
              ELSE m2
    IN m3

\* A scan that descends into arrays only.
children_of_arrays(ast_) == IF ast_.kind = "array" THEN ast_.elems ELSE <<>>

\* The values the match of lines 192-218 iterates, in order.
children(ast_) ==
    CASE ast_.kind = "array" -> ast_.elems
      [] ast_.kind = "object" -> [i \in 1..Len(ast_.entries) |-> ast_.entries[i].value]
      [] OTHER -> <<>>

RECURSIVE get_messages(_, _, _, _)
RECURSIVE extend_all(_, _, _, _, _)

\* messages.extend(get_messages(element, ..)) for each element in turn.
extend_all(list, elements, version, errors, warnings) ==
    IF elements = <<>> THEN list
    ELSE extend_all(list \o get_messages(Head(elements), version, errors, warnings),
                    Tail(elements), version, errors, warnings)

get_messages(ast_, version, errors, warnings) ==
    extend_all(own_messages(ast_, version, errors, warnings),
               children(ast_), version, errors, warnings)

----------------------------------------------------------------------------
(* The trees scanned.  Every node solc emits carries its nodeType and its  *)
(* src; the src of a node is made of the name of the subtree it is in and  *)
(* its place there, so no two nodes of a tree share one.                   *)

Src(base, place) == JString(<<base, place>>)

Identifier(name, type_identifier, src) ==
    JObject(<<Entry("name", JText(name)),
              Entry("nodeType", JText("Identifier")),
              Entry("src", src),
              Entry("typeDescriptions",
                    JObject(<<Entry("typeIdentifier", JString(type_identifier))>>))>>)

MemberAccess(member_name, expression, type_identifier, src) ==
    JObject(<<Entry("expression", expression),
              Entry("memberName", JText(member_name)),
              Entry("nodeType", JText("MemberAccess")),
              Entry("src", src),
              Entry("typeDescriptions",
                    JObject(<<Entry("typeIdentifier", JString(type_identifier))>>))>>)

FunctionCall(expression, src) ==
    JObject(<<Entry("arguments", JArray(<<>>)),
              Entry("expression", expression),
              Entry("id", JNumber),
              Entry("nodeType", JText("FunctionCall")),
              Entry("src", src)>>)

InlineAssembly(operations, src) ==
    JObject(<<Entry("nodeType", JText("InlineAssembly")),
              Entry("operations", JString(operations)),
              Entry("src", src)>>)

YulFunctionCall(name, src) ==
    JObject(<<Entry("arguments", JArray(<<>>)),
              Entry("functionName",
                    JObject(<<Entry("name", JText(name)),
                              Entry("nodeType", JText("YulIdentifier")),
                              Entry("src", Src(src.str[1], "name"))>>)),
              Entry("nodeType", JText("YulFunctionCall")),
              Entry("src", src)>>)

MemberNames == {"send", "transfer", "bar"}
ReceiverTypes == {<<"t_address_payable">>, <<"t_address">>, <<"t_contract">>}
AssemblyTexts == {<<"{ x := ", "origin()", " }">>, <<"{ x := ", "caller()", " }">>,
                  <<"{ let origin := 1 }">>}
YulNames == {"origin", "caller"}

\* The subtrees named `base`.
Nodes(base) ==
    \* addr.send(..), addr.transfer(..), foo.bar()
    {FunctionCall(MemberAccess(m, Identifier("addr", t, Src(base, "2")),
                               <<"t_function">>, Src(base, "1")),
                  Src(base, "0")) : m \in MemberNames, t \in ReceiverTypes}
    \* tx.origin, msg.origin
    \cup {MemberAccess("origin", Identifier(n, <<"t_magic_transaction">>, Src(base, "1")),
                       <<"t_address">>, Src(base, "0")) : n \in {"tx", "msg"}}
    \* tx.origin.transfer(..)
    \cup {FunctionCall(
              MemberAccess("transfer",
                  MemberAccess("origin",
                      Identifier("tx", <<"t_magic_transaction">>, Src(base, "3")),
                      t, Src(base, "2")),
                  <<"t_function">>, Src(base, "1")),
              Src(base, "0")) : t \in {<<"t_address_payable">>, <<"t_address">>}}
    \* type(C).runtimeCode, c.runtimeCode
    \cup {MemberAccess("runtimeCode", Identifier("C", t, Src(base, "1")),
                       <<"t_bytes">>, Src(base, "0")) :
              t \in {<<"t_magic_meta_type", "(t_contract)">>, <<"t_contract">>}}
    \cup {InlineAssembly(text, Src(base, "0")) : text \in AssemblyTexts}
    \cup {YulFunctionCall(n, Src(base, "0")) : n \in YulNames}
    \cup {JText("pragma"), JArray(<<>>)}

WrapNames == <<"w1", "w2", "w3", "w4">>

\* Two subtrees in an array, inside `depth` nested Block objects.
RECURSIVE Tree(_, _, _)
Tree(a, b, depth) ==
    IF depth = 0 THEN JArray(<<a, b>>)
    ELSE JObject(<<Entry("nodeType", JText("Block")),
                   Entry("src", Src(WrapNames[depth], "0")),
                   Entry("statements", JArray(<<Tree(a, b, depth - 1)>>))>>)

\* The second subtree of a pair: one node for each check, and one for none.
Siblings(base) ==
    {FunctionCall(MemberAccess("send", Identifier("addr", <<"t_address">>, Src(base, "2")),
                               <<"t_function">>, Src(base, "1")),
                  Src(base, "0")),
     MemberAccess("origin", Identifier("tx", <<"t_magic_transaction">>, Src(base, "1")),
                  <<"t_address">>, Src(base, "0")),
     MemberAccess("runtimeCode",
                  Identifier("C", <<"t_magic_meta_type", "(t_contract)">>, Src(base, "1")),
                  <<"t_bytes">>, Src(base, "0")),
     InlineAssembly(<<"{ x := ", "origin()", " }">>, Src(base, "0")),
     YulFunctionCall("origin", Src(base, "0")),
     JNumber}

Trees == {Tree(a, b, depth) : a \in Nodes("a"), b \in Siblings("b"), depth \in 0..MaxWrap}
         \cup Nodes("a")

Versions == {<<0, 4, 24>>, <<0, 5, 0>>, <<0, 5, 9>>, <<0, 6, 0>>, <<0, 8, 0>>}

StackIdle ==
    /\ stack = <<>>
    /\ memory = <<>>
    /\ height = 0
    /\ overflow_checks = TRUE
    /\ status = "off"
    /\ last = NoStep
    /\ prev = NoStep

InitScan ==
    /\ ast \in Trees
    /\ solc_version \in Versions
    /\ suppressed_errors \in SUBSET {"SendTransfer"}
    /\ suppressed_warnings \in SUBSET {"TxOrigin"}
    /\ messages = <<>>
    /\ pc = "idle"
    /\ StackIdle

Scan ==
    /\ pc = "idle"
    /\ messages' = get_messages(ast, solc_version, suppressed_errors, suppressed_warnings)
    /\ pc' = "done"
    /\ UNCHANGED <<ast, solc_version, suppressed_errors, suppressed_warnings, stackVars>>

NextScan == Scan

SpecScan == InitScan /\ [][NextScan]_vars

----------------------------------------------------------------------------
(* Properties of the scanner *)

\* Every value strictly inside v.
RECURSIVE Descendants(_)
Descendants(v) ==
    LET kids == CASE v.kind = "array" -> Range(v.elems)
                  [] v.kind = "object" -> {v.entries[i].value : i \in 1..Len(v.entries)}
                  [] OTHER -> {}
    IN kids \cup UNION {Descendants(k) : k \in kids}

AllNodes(v) == {v} \cup Descendants(v)

\* The text of the field reached from node n along the keys of path, or <<>>.
RECURSIVE TextAt(_, _)
TextAt(n, path) ==
    IF path = <<>> THEN (IF n.kind = "string" THEN n.str ELSE <<>>)
    ELSE TextAt(get(n, Head(path)), Tail(path))

Emitted(ctor, n) ==
    \E i \in 1..Len(messages) : messages[i].ctor = ctor /\ messages[i].src = get(n, "src")

Below(minor) == {v \in Versions : v[1] = 0 /\ v[2] < minor}

IsMemberCall(n) ==
    /\ TextAt(n, <<"nodeType">>) = <<"FunctionCall">>
    /\ TextAt(n, <<"expression", "nodeType">>) = <<"MemberAccess">>

\* C8: a call of send or transfer draws the send/transfer error when the
\* receiver is address-payable (any version) or plain address (versions
\* below 0.5.0 only), unless the error kind is suppressed; a call of any
\* other member draws none.
C8_SendTransfer ==
    pc = "done" =>
        \A n \in {m \in AllNodes(ast) : IsMemberCall(m)} :
            LET member == TextAt(n, <<"expression", "memberName">>)
                receiver == TextAt(n, <<"expression", "expression",
                                       "typeDescriptions", "typeIdentifier">>)
            IN Emitted("error_send_and_transfer", n)
                 <=> /\ "SendTransfer" \notin suppressed_errors
                     /\ member \in {<<"send">>, <<"transfer">>}
                     /\ \/ receiver = <<"t_address_payable">>
                        \/ receiver = <<"t_address">> /\ solc_version \in Below(5)

C8_Witness ==
    /\ pc = "done"
    /\ solc_version = <<0, 8, 0>>
    /\ \E n \in AllNodes(ast) :
          /\ IsMemberCall(n)
          /\ TextAt(n, <<"expression", "memberName">>) = <<"transfer">>
          /\ Emitted("error_send_and_transfer", n)
    /\ \E n \in AllNodes(ast) :
          /\ IsMemberCall(n)
          /\ TextAt(n, <<"expression", "expression", "typeDescriptions", "typeIdentifier">>)
                = <<"t_address">>
          /\ ~Emitted("error_send_and_transfer", n)

\* C9: an InlineAssembly node whose text holds "origin()" draws the
\* tx-origin warning exactly below 0.6.0, a YulFunctionCall node named
\* origin exactly at 0.6.0 and above, and neither when the warning kind is
\* suppressed; so one form is active at every version.
C9_AssemblyOrigin ==
    pc = "done" =>
        \A n \in AllNodes(ast) :
            /\ TextAt(n, <<"nodeType">>) = <<"InlineAssembly">>
                  => (Emitted("warning_tx_origin", n)
                        <=> /\ "TxOrigin" \notin suppressed_warnings
                            /\ solc_version \in Below(6)
                            /\ \E i \in 1..Len(TextAt(n, <<"operations">>)) :
                                  TextAt(n, <<"operations">>)[i] = "origin()")
            /\ TextAt(n, <<"nodeType">>) = <<"YulFunctionCall">>
                  => (Emitted("warning_tx_origin", n)
                        <=> /\ "TxOrigin" \notin suppressed_warnings
                            /\ solc_version \notin Below(6)
                            /\ TextAt(n, <<"functionName", "name">>) = <<"origin">>)

C9_Witness ==
    /\ pc = "done"
    /\ solc_version = <<0, 5, 9>>
    /\ \E n \in AllNodes(ast) :
          TextAt(n, <<"nodeType">>) = <<"InlineAssembly">> /\ Emitted("warning_tx_origin", n)
    /\ \E n \in AllNodes(ast) :
          /\ TextAt(n, <<"nodeType">>) = <<"YulFunctionCall">>
          /\ TextAt(n, <<"functionName", "name">>) = <<"origin">>
          /\ ~Emitted("warning_tx_origin", n)

\* The enabled checks node n matches, by the constructor of their message.
Matches(n) ==
    {m.ctor : m \in {c \in {check_send_and_transfer(solc_version, n),
                            check_runtime_code(n),
                            check_assembly_origin(solc_version, n),
                            check_tx_origin(n)} :
                       /\ c.some
                       /\ c.ctor = "error_send_and_transfer" => "SendTransfer" \notin suppressed_errors
                       /\ c.ctor = "warning_tx_origin" => "TxOrigin" \notin suppressed_warnings}}

MatchCount(n) == Cardinality(Matches(n))

RECURSIVE TotalMatches(_)
TotalMatches(S) ==
    IF S = {} THEN 0
    ELSE LET n == CHOOSE m \in S : TRUE IN MatchCount(n) + TotalMatches(S \ {n})

Places(ctor, n) ==
    {i \in 1..Len(messages) : messages[i].ctor = ctor /\ messages[i].src = as_str(get(n, "src"))}

\* C10: the scan of a finite tree ends, and its list holds one message for
\* each node and enabled check that matches, at every depth, a node's
\* messages before those of the nodes inside it; no match, empty list.
C10_ScanAllDepths ==
    pc = "done" =>
        /\ Len(messages) = TotalMatches(AllNodes(ast))
        /\ \A n \in AllNodes(ast) : \A c \in Matches(n) : Cardinality(Places(c, n)) = 1
        /\ \A n \in AllNodes(ast) : \A d \in Descendants(n) :
              \A c \in Matches(n), e \in Matches(d) :
                  \A i \in Places(c, n), j \in Places(e, d) : i < j
        /\ (\A n \in AllNodes(ast) : Matches(n) = {}) => messages = <<>>

C10_Witness ==
    /\ pc = "done"
    /\ Len(messages) = 3
    /\ \E n \in AllNodes(ast) : \E d \in Descendants(n) :
          /\ Matches(n) # {} /\ Matches(d) # {}
          /\ d \notin Range(children(n))
    /\ ast.kind = "object"

====
